---------------------------- MODULE Spec2Model ----------------------------
(***************************************************************************)
(* A model of src/textrank.py: the word registry, paragraph parsing, the   *)
(* co-occurrence graph, key-phrase normalisation and the two summary       *)
(* limiters.                                                               *)
(*                                                                         *)
(* External collaborators (tagger, lemmatizer, noun-phrase chunker,        *)
(* PageRank) are inputs: the model draws their results from small sets.    *)
(***************************************************************************)
EXTENDS Integers, Sequences, FiniteSets

VARIABLES
  pc,          \* Spec: "idle" | "sent" | "error" | "graph" | "done"
               \* ("off" in the other specifications)
  UNIQ_WORDS,  \* the process-wide registry: root -> word id
  call,        \* the last get_word_id call: [root, ret]
  pg,          \* parse_graf's locals: len(sent.words), raw_idx, parsed_raw, pos_family
  markup,      \* the parsed sentences so far, over the parse_graf calls of the document
  graf,        \* parse_graf's graf: the tokens of the sentence being parsed
  graph,       \* build_graph's DiGraph: [node, edge]
  gi,          \* build_graph: index of the next sentence of json_iter
  ls,          \* limit_sentences: its arguments, locals and what it yielded
  lk,          \* limit_keyphrases: its arguments, locals and what it yielded
  nk           \* normalize_key_phrases: its arguments, locals and what it yielded

vars == <<pc, UNIQ_WORDS, call, pg, markup, graf, graph, gi, ls, lk, nk>>

\* The variables of each part of the program.
graph_vars == <<pc, UNIQ_WORDS, call, pg, markup, graf, graph, gi>>

-----------------------------------------------------------------------------
(* Bounds of the model                                                     *)

MaxTokens == 5    \* tokens in the parsed document
MaxSents == 2     \* sentences in the parsed document
MaxWords == 3     \* words the tokenizer finds in a sentence (len(sent.words))

-----------------------------------------------------------------------------
(* Generic helpers                                                         *)

Min(a, b) == IF a < b THEN a ELSE b

Range(s) == {s[i] : i \in 1..Len(s)}

\* Sequences over S of length at most n.
SeqsUpTo(S, n) == UNION {[1..k -> S] : k \in 0..n}

RECURSIVE SumSeq(_)
SumSeq(s) == IF s = <<>> THEN 0 ELSE s[1] + SumSeq(Tail(s))

-----------------------------------------------------------------------------
(* parse and markup: UNIQ_WORDS, get_word_id, parse_graf                   *)

POS_KEEPS == {"v", "n", "j"}
POS_LEMMA == {"v", "n"}

\* What the tagger returns for one token: pos_tag = (surface, Penn tag).
TaggedWords ==
  { [raw |-> "Bs",  tag |-> "NN"],
    [raw |-> "Bs",  tag |-> "JJ"],
    [raw |-> ".",   tag |-> "."] }

\* The entries of sent.words, the tokenizer's words of the sentence.
Words == {"Bs"}

\* Roots a direct caller of get_word_id may pass.
CallRoots == {"b"}

\* is_not_word(pos_tag[0]) or (pos_tag[1] == "SYM"): the token is punctuation.
is_not_word(t) == t.raw \in {".", ",", "_"} \/ t.tag = "SYM"

\* pos_tag[1].lower()[0]
TagFamily(tag) ==
  CASE tag \in {"NN", "NNS", "NNP"} -> "n"
    [] tag \in {"VB", "VBZ", "VBD"} -> "v"
    [] tag \in {"JJ", "JJR"} -> "j"
    [] tag = "DT" -> "d"
    [] OTHER -> "."

\* str.lower() on the strings of the model.
lower(s) ==
  CASE s = "Bs" -> "bs"
    [] s = "B" -> "b"
    [] s = "C" -> "c"
    [] OTHER -> s

\* parsed_raw.singularize().lemmatize(pos_family) on the words of the model.
singular_lemma(word, fam) ==
  CASE word = "Bs" -> "B"
    [] OTHER -> word

\* The branch the iteration takes at lines 154-161: the punctuation branch, the
\* branch that reads sent.words[raw_idx], or neither (there is no else).
parse_branch(t, raw_idx, nwords) ==
  IF is_not_word(t) THEN "punct"
  ELSE IF raw_idx < nwords THEN "word"
  ELSE "none"

\* pos_family after lines 154-161; left as it was when neither branch is taken.
pos_family(t, raw_idx, nwords, old) ==
  CASE parse_branch(t, raw_idx, nwords) = "punct" -> "."
    [] parse_branch(t, raw_idx, nwords) = "word" -> TagFamily(t.tag)
    [] OTHER -> old

\* parsed_raw after lines 154-161; left as it was when neither branch is taken.
parsed_raw(t, word, raw_idx, nwords, old) ==
  CASE parse_branch(t, raw_idx, nwords) = "punct" -> t.raw
    [] parse_branch(t, raw_idx, nwords) = "word" -> word
    [] OTHER -> old

\* get_word_id with a fault: the new identity is one less than the registry's size.
get_word_id_short(U, root) ==
  IF root \notin DOMAIN U
    THEN [r \in DOMAIN U \cup {root} |->
            IF r = root THEN Cardinality(DOMAIN U) - 1 ELSE U[r]]
    ELSE U

\* get_word_id: the registry after the call; the call returns its value at root.
get_word_id(U, root) ==
  IF root \notin DOMAIN U
    THEN [r \in DOMAIN U \cup {root} |->
            IF r = root THEN Cardinality(DOMAIN U) ELSE U[r]]
    ELSE U

\* The root parse_graf derives: the lowercased lemma for nouns and verbs, the
\* lowercased surface otherwise, the surface unchanged for punctuation.
word_root(raw, fam) ==
  IF fam \in POS_LEMMA THEN lower(singular_lemma(raw, fam))
  ELSE IF fam # "." THEN lower(raw)
  ELSE raw

\* The WordNode parse_graf appends: pos is the tag, or "." on the punctuation
\* branch; raw and fam are parsed_raw and pos_family; U is the registry after the
\* iteration's get_word_id call.
WordNode(pos, raw, fam, idx, U) ==
  LET kept == fam \in POS_KEEPS
  IN [ word_id |-> IF kept THEN U[word_root(raw, fam)] ELSE 0,
       raw |-> raw,
       root |-> word_root(raw, fam),
       pos |-> pos,
       keep |-> IF kept THEN 1 ELSE 0,
       idx |-> idx ]

\* new_base_idx: the tokens parsed so far (parse_doc hands each parse_graf call the
\* new_base_idx of the one before).
NTokens == Len(graf) + SumSeq([i \in 1..Len(markup) |-> Len(markup[i])])

\* parse_graf is not running: it has no locals.
PgIdle ==
  [ nwords |-> 0, raw_idx |-> 0, bound |-> FALSE,
    parsed_raw |-> "", pos_family |-> "", err |-> "" ]

\* A direct call of get_word_id, while the caller has control: before, between and
\* after the parse_graf calls, and after build_graph.
GetWordIdCall(root) ==
  /\ pc \in {"idle", "done"}
  /\ UNIQ_WORDS' = get_word_id(UNIQ_WORDS, root)
  /\ call' = [root |-> root, ret |-> UNIQ_WORDS'[root]]
  /\ UNCHANGED <<pc, pg, markup, graf, graph, gi>>
  /\ UNCHANGED <<ls, lk, nk>>

\* parse_graf is called on the next paragraph and its loop takes the first
\* sentence: parsed_raw and pos_family are unbound, graf = [], raw_idx = 0; nwords
\* is len(sent.words). (On a paragraph without sentences parse_graf returns at
\* once and changes nothing.)
ParseGrafCall(nwords) ==
  /\ pc = "idle"
  /\ Len(markup) < MaxSents
  /\ pc' = "sent"
  /\ pg' = [PgIdle EXCEPT !.nwords = nwords]
  /\ graf' = <<>>
  /\ UNCHANGED <<UNIQ_WORDS, call, markup, graph, gi>>
  /\ UNCHANGED <<ls, lk, nk>>

\* One iteration of parse_graf's while loop over the tagged sentence, t being
\* tagged_sent[tag_idx] and word sent.words[raw_idx] (read on its branch only).
\* When neither branch of lines 154-161 is taken, parsed_raw and pos_family are
\* those of the iteration before, or unbound: line 163 raises UnboundLocalError.
ParseToken(t, word) ==
  /\ pc = "sent"
  /\ NTokens < MaxTokens
  /\ LET branch == parse_branch(t, pg.raw_idx, pg.nwords)
         raw == parsed_raw(t, word, pg.raw_idx, pg.nwords, pg.parsed_raw)
         fam == pos_family(t, pg.raw_idx, pg.nwords, pg.pos_family)
         kept == fam \in POS_KEEPS
         root == word_root(raw, fam)
         U == IF kept THEN get_word_id(UNIQ_WORDS, root) ELSE UNIQ_WORDS
     IN IF branch = "none" /\ ~pg.bound
          THEN /\ pc' = "error"
               /\ pg' = [pg EXCEPT !.err = "UnboundLocalError"]
               /\ UNCHANGED <<UNIQ_WORDS, call, graf>>
          ELSE /\ pc' = pc
               /\ pg' = [pg EXCEPT !.bound = TRUE, !.parsed_raw = raw,
                                   !.pos_family = fam,
                                   !.raw_idx = IF branch = "word" THEN @ + 1 ELSE @]
               /\ UNIQ_WORDS' = U
               /\ call' = IF kept THEN [root |-> root, ret |-> U[root]] ELSE call
               /\ graf' = Append(graf,
                            WordNode(IF branch = "punct" THEN "." ELSE t.tag,
                                     raw, fam, NTokens, U))
  /\ UNCHANGED <<markup, graph, gi>>
  /\ UNCHANGED <<ls, lk, nk>>

\* The while loop is over, after any number of iterations:
\* markup.append(ParsedGraf(...)), and the loop over the sentences takes the next
\* one, with nwords words; parsed_raw and pos_family stay as they are.
NextSentence(nwords) ==
  /\ pc = "sent"
  /\ Len(markup) + 1 < MaxSents
  /\ markup' = Append(markup, graf)
  /\ graf' = <<>>
  /\ pg' = [pg EXCEPT !.nwords = nwords, !.raw_idx = 0]
  /\ UNCHANGED <<pc, UNIQ_WORDS, call, graph, gi>>
  /\ UNCHANGED <<ls, lk, nk>>

\* The while loop is over and the sentence was the paragraph's last:
\* markup.append(ParsedGraf(...)); return markup, new_base_idx.
ParseGrafReturn ==
  /\ pc = "sent"
  /\ pc' = "idle"
  /\ markup' = Append(markup, graf)
  /\ graf' = <<>>
  /\ pg' = PgIdle
  /\ UNCHANGED <<UNIQ_WORDS, call, graph, gi>>
  /\ UNCHANGED <<ls, lk, nk>>

-----------------------------------------------------------------------------
(* graph analytics: get_tiles, build_graph                                 *)

TileSize == 3

\* tile_ok with a fault: the position gap must be strictly below the window size.
tile_ok_strict(w0, w1, size) == (w1.idx - w0.idx) < size

\* get_tiles' test on a pair of kept tokens.
tile_ok(w0, w1, size) == (w1.idx - w0.idx) <= size

\* The inner loop of get_tiles for keeps[i]: j runs over i+1 .. min(len, i+size)
\* (1-based), from j on.
RECURSIVE tiles_from(_, _, _, _)
tiles_from(keeps, i, j, size) ==
  IF j > Min(Len(keeps), i + size)
    THEN <<>>
    ELSE (IF tile_ok(keeps[i], keeps[j], size)
            THEN << <<keeps[i].root, keeps[j].root>> >>
            ELSE <<>>)
         \o tiles_from(keeps, i, j + 1, size)

\* The outer loop of get_tiles, from keeps[i] on: i runs over 1 .. len-1 (1-based).
RECURSIVE tiles_outer(_, _, _)
tiles_outer(keeps, i, size) ==
  IF i > Len(keeps) - 1
    THEN <<>>
    ELSE tiles_from(keeps, i, i + 1, size) \o tiles_outer(keeps, i + 1, size)

\* get_tiles(graf, size): the pairs it yields, in order.
get_tiles(g, size) ==
  LET keeps == SelectSeq(g, LAMBDA w : w.word_id > 0)
  IN tiles_outer(keeps, 1, size)

EmptyGraph == [node |-> {}, edge |-> << >>]

\* The body of build_graph's loop over the pairs: add the nodes, then increment
\* the edge's weight or create it with weight 1.
add_pair(G, pair) ==
  [ node |-> G.node \cup {pair[1], pair[2]},
    edge |-> IF pair \in DOMAIN G.edge
               THEN [G.edge EXCEPT ![pair] = @ + 1]
               ELSE [e \in DOMAIN G.edge \cup {pair} |->
                       IF e = pair THEN 1 ELSE G.edge[e]] ]

RECURSIVE add_pairs(_, _)
add_pairs(G, pairs) ==
  IF pairs = <<>> THEN G ELSE add_pairs(add_pair(G, Head(pairs)), Tail(pairs))

\* graph = nx.DiGraph()
StartBuildGraph ==
  /\ pc = "idle"
  /\ pc' = "graph"
  /\ graph' = EmptyGraph
  /\ gi' = 1
  /\ UNCHANGED <<UNIQ_WORDS, call, pg, markup, graf>>
  /\ UNCHANGED <<ls, lk, nk>>

\* One iteration of build_graph's loop over the sentences.
BuildGraphStep ==
  /\ pc = "graph"
  /\ gi <= Len(markup)
  /\ graph' = add_pairs(graph, get_tiles(markup[gi], TileSize))
  /\ gi' = gi + 1
  /\ UNCHANGED <<pc, UNIQ_WORDS, call, pg, markup, graf>>
  /\ UNCHANGED <<ls, lk, nk>>

\* return graph
FinishBuildGraph ==
  /\ pc = "graph"
  /\ gi > Len(markup)
  /\ pc' = "done"
  /\ UNCHANGED <<UNIQ_WORDS, call, pg, markup, graf, graph, gi>>
  /\ UNCHANGED <<ls, lk, nk>>

-----------------------------------------------------------------------------
(* collect key phrases: find_chunk, collect_chunks, normalize_key_phrases  *)
(*                                                                         *)
(* A text is the sequence of its space-separated words: " ".join and       *)
(* split(" ") are inverse on words without spaces, and comparing two texts *)
(* compares their words.                                                   *)
(*                                                                         *)
(* A rank is a real number sqrt(sq)/n + bias, kept as the record           *)
(* [sq, n, bias] of integers (in units of a denominator common to all      *)
(* ranks) and compared exactly. ranks[root] = r is [sq 0, n 1, bias r].    *)

MaxDocTokens == 5   \* tokens in the document
MaxDocSents == 2    \* sentences in the document
MaxRank == 2        \* a PageRank value is k units, k in 1..MaxRank

\* What the tagger returned for the tokens of the document (the tokenizer's words
\* are the surfaces of the tokens that are not punctuation).
PhraseTagged ==
  { [raw |-> "a", tag |-> "NN"],
    [raw |-> "C", tag |-> "VB"],
    [raw |-> ".", tag |-> "."] }

\* The registries the document may have been parsed with: "c" registered right
\* after "a", or after seven other roots.
PhraseRegistries ==
  { [r \in {".", "a", "c"} |-> CASE r = "." -> 0 [] r = "a" -> 1 [] OTHER -> c] :
      c \in {2, 9} }

\* The noun phrases the chunker may return.
NounPhrases ==
  { <<"a">>, <<"c">>, <<"a", "a">>, <<"a", "c">> }

\* w.pos.lower()
lower_tag(pos) ==
  CASE pos = "NN" -> "nn"
    [] pos = "VB" -> "vb"
    [] pos = "JJ" -> "jj"
    [] pos = "DT" -> "dt"
    [] OTHER -> pos

single_rank(r) == [sq |-> 0, n |-> 1, bias |-> r]

\* sqrt(A) - sqrt(B) >= c, for integers A, B >= 0 and c.
SqrtDiffGE(A, B, c) ==
  IF c <= 0
    THEN LET d == B - A - c * c IN d <= 0 \/ 4 * c * c * A >= d * d
    ELSE LET e == A - B - c * c IN e >= 0 /\ e * e >= 4 * c * c * B

\* x < y for two ranks.
rank_less(x, y) ==
  ~SqrtDiffGE(y.n * y.n * x.sq, x.n * x.n * y.sq, x.n * y.n * (y.bias - x.bias))

\* The WordNode parse_graf appends for token t at position idx when the
\* tokenizer's words are aligned with the tagged tokens.
aligned_node(t, idx, U) ==
  LET fam == pos_family(t, 0, 1, "")
      raw == parsed_raw(t, t.raw, 0, 1, "")
  IN WordNode(IF is_not_word(t) THEN "." ELSE t.tag, raw, fam, idx,
              IF fam \in POS_KEEPS THEN get_word_id(U, word_root(raw, fam)) ELSE U)

\* The parsed sentences of a document: tokens toks, sentence i holding the next
\* lens[i] of them (a sentence may be empty).
parsed_doc(toks, lens, U) ==
  LET nodes == [k \in 1..Len(toks) |-> aligned_node(toks[k], k - 1, U)]
      before(i) == SumSeq(SubSeq(lens, 1, i - 1))
  IN [i \in 1..Len(lens) |-> SubSeq(nodes, before(i) + 1, before(i) + lens[i])]

\* build_graph over the sentences of a document, from sentence i on.
RECURSIVE build_graph(_, _, _)
build_graph(G, doc, i) ==
  IF i > Len(doc) THEN G
  ELSE build_graph(add_pairs(G, get_tiles(doc[i], TileSize)), doc, i + 1)

\* RankedLexeme(text=w.raw.lower(), rank=ranks[w.root], ids=[w.word_id], pos=w.pos.lower())
word_lexeme(w, ranks) ==
  [ text |-> <<lower(w.raw)>>,
    rank |-> single_rank(ranks[w.root]),
    ids |-> <<w.word_id>>,
    pos |-> lower_tag(w.pos) ]

\* lex[str(rl.ids)] = rl on the insertion-ordered dict lex: the key is the text of
\* the list ids, so two lists are the same key when they are equal as lists.
lex_put(lex, rl) ==
  IF \E k \in 1..Len(lex) : lex[k].ids = rl.ids
    THEN [k \in 1..Len(lex) |-> IF lex[k].ids = rl.ids THEN rl ELSE lex[k]]
    ELSE Append(lex, rl)

\* (w.word_id > 0) and (w.root in ranks) and (w.pos[0] in "NV")
is_single(w, ranks) ==
  w.word_id > 0 /\ w.root \in DOMAIN ranks /\ TagFamily(w.pos) \in {"n", "v"}

\* The single-word pass over a sentence, from token k on: the lexeme table and
\* max_single_rank after it.
RECURSIVE single_pass(_, _, _, _, _)
single_pass(lex, max_single_rank, sent, k, ranks) ==
  IF k > Len(sent) THEN [lex |-> lex, max_single_rank |-> max_single_rank]
  ELSE IF is_single(sent[k], ranks)
    THEN single_pass(lex_put(lex, word_lexeme(sent[k], ranks)),
                     IF ranks[sent[k].root] > max_single_rank
                       THEN ranks[sent[k].root] ELSE max_single_rank,
                     sent, k + 1, ranks)
    ELSE single_pass(lex, max_single_rank, sent, k + 1, ranks)

\* find_chunk_sub(phrase, np, i), i counted from 1: "raise" (phrase[i + j] is past
\* the end: IndexError), "none", or the slice of the phrase.
find_chunk_sub(phrase, np, i) ==
  LET stops == {j \in 1..Len(np) :
                  i + j - 1 > Len(phrase) \/ phrase[i + j - 1].text # <<np[j]>>}
  IN IF stops = {}
       THEN [kind |-> "some", val |-> SubSeq(phrase, i, i + Len(np) - 1)]
       ELSE LET j == CHOOSE j \in stops : \A m \in stops : j <= m
            IN IF i + j - 1 > Len(phrase)
                 THEN [kind |-> "raise", val |-> <<>>]
                 ELSE [kind |-> "none", val |-> <<>>]

\* find_chunk(phrase, np), from position i on.
RECURSIVE find_chunk(_, _, _)
find_chunk(phrase, np, i) ==
  IF i > Len(phrase) THEN [kind |-> "none", val |-> <<>>]
  ELSE LET parsed_np == find_chunk_sub(phrase, np, i)
       IN IF parsed_np.kind = "none"
            THEN find_chunk(phrase, np, i + 1)
            ELSE parsed_np

phrase_text(phrase) == [k \in 1..Len(phrase) |-> phrase[k].text[1]]

\* collect_chunks(phrase), the chunker having returned nps for the phrase's text:
\* the (text, p) pairs it yields, p being find_chunk's result.
collect_chunks(phrase, nps) ==
  IF Len(phrase) > 1
    THEN LET text == phrase_text(phrase)
             proper == SelectSeq(nps, LAMBDA np : np # text)
         IN IF proper # <<>>
              THEN [k \in 1..Len(proper) |->
                      [text |-> proper[k], p |-> find_chunk(phrase, proper[k], 1)]]
              ELSE IF \A k \in 1..Len(phrase) : phrase[k].pos \notin {"vb", "vbz", "vbd", "v"}
                THEN << [text |-> text, p |-> [kind |-> "some", val |-> phrase]] >>
                ELSE <<>>
    ELSE <<>>

\* A set of small non-negative integers as CPython keeps it: a table of 8 slots
\* (-1: empty), an integer's hash being the integer. set_probe is the slot where
\* the search for key ends, from slot i: the first slot on the probe sequence that
\* is empty or holds key. (The table keeps its 8 slots as long as it holds at most
\* 3 members when a set is merged into it, which the phrases of the model ensure.)
RECURSIVE set_probe(_, _, _, _)
set_probe(table, key, i, perturb) ==
  IF table[i] = -1 \/ table[i] = key
    THEN i
    ELSE set_probe(table, key, (i * 5 + 1 + (perturb \div 32)) % 8, perturb \div 32)

\* set.union over the sets of the members, in order: each identity is added to
\* the table unless it is there.
RECURSIVE set_union(_, _)
set_union(table, members) ==
  IF members = <<>> THEN table
  ELSE set_union([table EXCEPT ![set_probe(table, Head(members), Head(members) % 8,
                                           Head(members))] = Head(members)],
                 Tail(members))

\* list(set.union(*[set(rl.ids) for rl in p])): the members in slot order.
chunk_ids(p) ==
  LET table == set_union([i \in 0..7 |-> -1], [m \in 1..Len(p) |-> p[m].ids[1]])
      used == {i \in 0..7 : table[i] # -1}
  IN [k \in 1..Cardinality(used) |->
        table[CHOOSE i \in used : Cardinality({j \in used : j < i}) = k - 1]]

\* math.sqrt(sum([rl.rank**2.0 for rl in p]))/float(len(p)) + max_single_rank
phrase_rank(p, max_single_rank) ==
  [ sq |-> SumSeq([k \in 1..Len(p) |-> p[k].rank.bias * p[k].rank.bias]),
    n |-> Len(p),
    bias |-> max_single_rank ]

\* The body of the loop over collect_chunks' pairs, from pair k on: st is
\* [lex, err, at]. p = None raises TypeError in "for rl in p" (line 359);
\* find_chunk_sub's IndexError (line 288) comes out of the generator.
RECURSIVE put_chunks(_, _, _, _)
put_chunks(st, chunks, k, max_single_rank) ==
  IF k > Len(chunks) \/ st.err # "" THEN st
  ELSE LET c == chunks[k]
       IN put_chunks(
            CASE c.p.kind = "raise" -> [st EXCEPT !.err = "IndexError", !.at = c.text]
              [] c.p.kind = "none" -> [st EXCEPT !.err = "TypeError", !.at = c.text]
              [] OTHER ->
                   [st EXCEPT !.lex = lex_put(@,
                      [ text |-> c.text,
                        rank |-> phrase_rank(c.p.val, max_single_rank),
                        ids |-> chunk_ids(c.p.val),
                        pos |-> "np" ])],
            chunks, k + 1, max_single_rank)

\* sorted(lex.values(), key=rank, reverse=True), stable: the first k lexemes of
\* lex sorted.
RECURSIVE sorted_desc(_, _)
sorted_desc(lex, k) ==
  IF k = 0 THEN <<>>
  ELSE LET done == sorted_desc(lex, k - 1)
           x == lex[k]
           ahead == Cardinality({m \in 1..Len(done) : ~rank_less(done[m].rank, x.rank)})
       IN SubSeq(done, 1, ahead) \o <<x>> \o SubSeq(done, ahead + 1, Len(done))

\* sum_ranks = 0
sum_is_zero(lex) == \A k \in 1..Len(lex) : lex[k].rank.sq = 0 /\ lex[k].rank.bias = 0

\* rl._replace(rank=rl.rank / sum_ranks): the rank is kept as the pair of the
\* rank and the terms of the sum.
divided(rl, lex) ==
  [rl EXCEPT !.rank = [value |-> rl.rank, over |-> [m \in 1..Len(lex) |-> lex[m].rank]]]

\* next_yield with a fault: the division is done before the loop's test.
next_yield_eager(queue, i, lex) ==
  IF sum_is_zero(lex) THEN [kind |-> "raise", val |-> <<>>]
  ELSE IF i > Len(queue) THEN [kind |-> "stop", val |-> <<>>]
  ELSE [kind |-> "yield", val |-> <<divided(queue[i], lex)>>]

\* One turn of the last loop of normalize_key_phrases, queue being the sorted
\* lexemes and i the next one: the loop is over ("stop"), the division raises
\* ZeroDivisionError because sum_ranks = 0 ("raise"), or the lexeme is yielded with
\* its rank divided by sum_ranks.
next_yield(queue, i, lex) ==
  IF i > Len(queue) THEN [kind |-> "stop", val |-> <<>>]
  ELSE IF sum_is_zero(lex) THEN [kind |-> "raise", val |-> <<>>]
  ELSE [kind |-> "yield", val |-> <<divided(queue[i], lex)>>]

NkOff == [pc |-> "off"]

\* normalize_key_phrases(path, ranks) about to start.
NkStart(doc, ranks) ==
  [ pc |-> "sent",
    path |-> doc,
    ranks |-> ranks,
    si |-> 1,
    sent |-> <<>>,
    tail |-> 0,
    last_idx |-> 0,
    phrase |-> <<>>,
    lex |-> <<>>,
    max_single_rank |-> 0,
    queue |-> <<>>,       \* sorted(lex.values(), ...), once computed
    qi |-> 1,             \* the next lexeme of queue
    out |-> <<>>,         \* what was yielded
    err |-> "",
    line |-> 0,           \* the line of the source that raised err
    at |-> <<>>,          \* the chunk text being handled when err was raised
    submitted |-> <<>> ]  \* history: the runs of two or more tokens given to
                          \* collect_chunks in this sentence, as [from, to] positions

\* A sentence is read: the single-word pass, then the phrase pass is set up;
\* sent[0] raises IndexError on a sentence without tokens.
NkReadSentence ==
  /\ nk.pc = "sent"
  /\ nk.si <= Len(nk.path)
  /\ LET sent == nk.path[nk.si]
         sp == single_pass(nk.lex, nk.max_single_rank, sent, 1, nk.ranks)
     IN nk' = IF sent = <<>>
                THEN [nk EXCEPT !.pc = "error", !.err = "IndexError", !.line = 346,
                                !.sent = sent, !.tail = 0, !.submitted = <<>>]
                ELSE [nk EXCEPT !.pc = "scan", !.sent = sent,
                                !.lex = sp.lex, !.max_single_rank = sp.max_single_rank,
                                !.tail = 0, !.last_idx = sent[1].idx - 1,
                                !.phrase = <<>>, !.submitted = <<>>]
  /\ UNCHANGED <<graph_vars, ls, lk>>

\* (w.word_id > 0) and (w.root in ranks) and ((w.idx - last_idx) == 1)
in_run(w, ranks, last_idx) ==
  w.word_id > 0 /\ w.root \in DOMAIN ranks /\ (w.idx - last_idx) = 1

\* The while loop's iteration that keeps collecting.
NkCollect ==
  /\ nk.pc = "scan"
  /\ nk.tail < Len(nk.sent)
  /\ LET w == nk.sent[nk.tail + 1]
     IN /\ in_run(w, nk.ranks, nk.last_idx)
        /\ nk' = [nk EXCEPT !.phrase = Append(@, word_lexeme(w, nk.ranks)),
                            !.last_idx = w.idx, !.tail = @ + 1]
  /\ UNCHANGED <<graph_vars, ls, lk>>

\* What the chunker may return for a phrase, textblob's noun_phrases: no noun
\* phrase, one, or two; nothing for a phrase collect_chunks does not submit.
ChunkerResults(phrase) ==
  IF Len(phrase) > 1
    THEN {<<>>} \cup {<<np>> : np \in NounPhrases}
           \cup {<< <<"a", "c">>, <<"c", "a">> >>}
    ELSE {<<>>}

\* The phrase after a boundary, with the history of the runs submitted.
after_boundary(s, w, st) ==
  [s EXCEPT !.lex = st.lex, !.err = st.err, !.at = st.at,
            !.line = CASE st.err = "IndexError" -> 288
                       [] st.err = "TypeError" -> 359
                       [] OTHER -> @,
            !.pc = IF st.err = "" THEN "scan" ELSE "error",
            !.submitted = IF Len(s.phrase) > 1
                            THEN Append(@, <<s.tail - Len(s.phrase) + 1, s.tail>>)
                            ELSE @,
            !.phrase = IF st.err = "" THEN <<>> ELSE @,
            !.last_idx = IF st.err = "" THEN w.idx ELSE @,
            !.tail = IF st.err = "" THEN @ + 1 ELSE @]

\* The while loop's iteration at a phrase boundary, the chunks all aligned.
NkBoundary(nps) ==
  /\ nk.pc = "scan"
  /\ nk.tail < Len(nk.sent)
  /\ LET w == nk.sent[nk.tail + 1]
         st == put_chunks([lex |-> nk.lex, err |-> "", at |-> <<>>],
                          collect_chunks(nk.phrase, nps), 1, nk.max_single_rank)
     IN /\ ~in_run(w, nk.ranks, nk.last_idx)
        /\ st.err = ""
        /\ nk' = after_boundary(nk, w, st)
  /\ UNCHANGED <<graph_vars, ls, lk>>

\* The while loop's iteration at a phrase boundary that raises.
NkBoundaryRaise(nps) ==
  /\ nk.pc = "scan"
  /\ nk.tail < Len(nk.sent)
  /\ LET w == nk.sent[nk.tail + 1]
         st == put_chunks([lex |-> nk.lex, err |-> "", at |-> <<>>],
                          collect_chunks(nk.phrase, nps), 1, nk.max_single_rank)
     IN /\ ~in_run(w, nk.ranks, nk.last_idx)
        /\ st.err # ""
        /\ nk' = after_boundary(nk, w, st)
  /\ UNCHANGED <<graph_vars, ls, lk>>

\* The while loop ends (tail = len(sent)): on to the next sentence.
NkEndSentence ==
  /\ nk.pc = "scan"
  /\ nk.tail >= Len(nk.sent)
  /\ nk' = [nk EXCEPT !.pc = "sent", !.si = @ + 1]
  /\ UNCHANGED <<graph_vars, ls, lk>>

\* json_iter is exhausted: sum_ranks is computed and the lexemes are sorted.
NkNormalize ==
  /\ nk.pc = "sent"
  /\ nk.si > Len(nk.path)
  /\ nk' = [nk EXCEPT !.pc = "yield", !.queue = sorted_desc(nk.lex, Len(nk.lex)),
                      !.qi = 1]
  /\ UNCHANGED <<graph_vars, ls, lk>>

\* One turn of the last loop: the next lexeme is yielded with its rank divided, or
\* the division raises.
NkYield ==
  /\ nk.pc = "yield"
  /\ LET r == next_yield(nk.queue, nk.qi, nk.lex)
     IN /\ r.kind # "stop"
        /\ nk' = IF r.kind = "raise"
                   THEN [nk EXCEPT !.pc = "error", !.err = "ZeroDivisionError",
                                   !.line = 376]
                   ELSE [nk EXCEPT !.out = @ \o r.val, !.qi = @ + 1]
  /\ UNCHANGED <<graph_vars, ls, lk>>

\* The last loop is over: the generator ends.
NkReturn ==
  /\ nk.pc = "yield"
  /\ next_yield(nk.queue, nk.qi, nk.lex).kind = "stop"
  /\ nk' = [nk EXCEPT !.pc = "done"]
  /\ UNCHANGED <<graph_vars, ls, lk>>

-----------------------------------------------------------------------------
(* document summarization: limit_sentences                                 *)

MaxTextLen == 2     \* characters of a summary sentence's text
MaxSummary == 3     \* summary sentences in the file
MaxWordLimit == 4   \* word_limit

Chars == {"a", " "}

\* text.split(" "): the pieces between single spaces (one piece, the text itself,
\* when it holds no space; pieces may be empty).
RECURSIVE split(_)
split(text) ==
  IF \A k \in 1..Len(text) : text[k] # " "
    THEN <<text>>
    ELSE LET k == CHOOSE k \in 1..Len(text) :
                    text[k] = " " /\ \A m \in 1..(k - 1) : text[m] # " "
         IN <<SubSeq(text, 1, k - 1)>> \o split(SubSeq(text, k + 1, Len(text)))

\* over_limit with a fault: a sentence that exactly fills the budget is refused.
over_limit_eq(word_count, sent_len, word_limit) ==
  (word_count + sent_len) >= word_limit

\* limit_sentences' test: the sentence would exceed the budget.
over_limit(word_count, sent_len, word_limit) ==
  (word_count + sent_len) > word_limit

LsOff == [pc |-> "off"]

\* limit_sentences(path, word_limit) about to start: path holds the SummarySent
\* records of the file (idx is the sentence's ordinal in the document).
LsStart(texts, word_limit) ==
  [ pc |-> "run",
    path |-> [k \in 1..Len(texts) |->
                [idx |-> Len(texts) - k, text |-> texts[k]]],
    word_limit |-> word_limit,
    i |-> 1,
    word_count |-> 0,
    out |-> <<>> ]

\* One iteration that yields (sent_text, p.idx).
LimitSentencesYield ==
  /\ ls.pc = "run"
  /\ ls.i <= Len(ls.path)
  /\ LET p == ls.path[ls.i]
         sent_text == split(p.text)
         sent_len == Len(sent_text)
     IN /\ ~over_limit(ls.word_count, sent_len, ls.word_limit)
        /\ ls' = [ls EXCEPT !.word_count = @ + sent_len,
                            !.out = Append(@, <<sent_text, p.idx>>),
                            !.i = @ + 1]
  /\ UNCHANGED <<graph_vars, lk, nk>>

\* The iteration that breaks out of the loop.
LimitSentencesBreak ==
  /\ ls.pc = "run"
  /\ ls.i <= Len(ls.path)
  /\ over_limit(ls.word_count, Len(split(ls.path[ls.i].text)), ls.word_limit)
  /\ ls' = [ls EXCEPT !.pc = "done"]
  /\ UNCHANGED <<graph_vars, lk, nk>>

\* json_iter is exhausted.
LimitSentencesExhausted ==
  /\ ls.pc = "run"
  /\ ls.i > Len(ls.path)
  /\ ls' = [ls EXCEPT !.pc = "done"]
  /\ UNCHANGED <<graph_vars, lk, nk>>

-----------------------------------------------------------------------------
(* document summarization: limit_keyphrases                                *)

MaxLex == 3          \* ranked lexemes in the file
MaxRankUnits == 3    \* a rank is k/D for a denominator D common to the file, k in 1..MaxRankUnits
MaxPhraseLimit == 2  \* phrase_limit

LexPos == {"np", "nn", "vb"}

LkOff == [pc |-> "off"]

\* limit_keyphrases(path, phrase_limit) about to start. A lexeme's text is its
\* ordinal in the file (the texts of a file's lexemes differ).
LkStart(lexemes, phrase_limit) ==
  [ pc |-> "load",
    path |-> [k \in 1..Len(lexemes) |->
                [text |-> k, rank |-> lexemes[k][1], pos |-> lexemes[k][2]]],
    phrase_limit |-> phrase_limit,
    lex |-> <<>>,
    sum |-> 0,
    i |-> 1,
    used |-> 0,
    out |-> <<>>,
    err |-> "" ]

\* rl.pos[0] != "v"
not_verb(rl) == rl.pos \notin {"vb", "vbz", "vbd", "v"}

\* rl.rank < statistics.mean(ranks): the mean is exact, so with n ranks of sum s
\* the test is n * rank < s.
below_mean(rl, n, s) == n * rl.rank < s

\* used > phrase_limit
limit_reached(used, phrase_limit) == used > phrase_limit

\* The file is read into lex and the mean computed; statistics.mean raises
\* StatisticsError on no data.
LimitKeyphrasesLoad ==
  /\ lk.pc = "load"
  /\ lk' = IF lk.path = <<>>
             THEN [lk EXCEPT !.pc = "error", !.err = "StatisticsError"]
             ELSE [lk EXCEPT !.pc = "scan", !.lex = lk.path,
                             !.sum = SumSeq([k \in 1..Len(lk.path) |-> lk.path[k].rank])]
  /\ UNCHANGED <<graph_vars, ls, nk>>

\* A verb-led lexeme: nothing happens.
LimitKeyphrasesSkip ==
  /\ lk.pc = "scan"
  /\ lk.i <= Len(lk.lex)
  /\ ~not_verb(lk.lex[lk.i])
  /\ lk' = [lk EXCEPT !.i = @ + 1]
  /\ UNCHANGED <<graph_vars, ls, nk>>

\* The early exit.
LimitKeyphrasesReturn ==
  /\ lk.pc = "scan"
  /\ lk.i <= Len(lk.lex)
  /\ not_verb(lk.lex[lk.i])
  /\ \/ limit_reached(lk.used, lk.phrase_limit)
     \/ below_mean(lk.lex[lk.i], Len(lk.lex), lk.sum)
  /\ lk' = [lk EXCEPT !.pc = "done"]
  /\ UNCHANGED <<graph_vars, ls, nk>>

\* used += 1; yield rl.text
LimitKeyphrasesYield ==
  /\ lk.pc = "scan"
  /\ lk.i <= Len(lk.lex)
  /\ not_verb(lk.lex[lk.i])
  /\ ~limit_reached(lk.used, lk.phrase_limit)
  /\ ~below_mean(lk.lex[lk.i], Len(lk.lex), lk.sum)
  /\ lk' = [lk EXCEPT !.used = @ + 1, !.out = Append(@, lk.lex[lk.i].text),
                      !.i = @ + 1]
  /\ UNCHANGED <<graph_vars, ls, nk>>

\* The loop over lex is exhausted.
LimitKeyphrasesExhausted ==
  /\ lk.pc = "scan"
  /\ lk.i > Len(lk.lex)
  /\ lk' = [lk EXCEPT !.pc = "done"]
  /\ UNCHANGED <<graph_vars, ls, nk>>

-----------------------------------------------------------------------------
(* Spec: one document parsed, then its graph built                         *)

Init ==
  /\ pc = "idle"
  /\ UNIQ_WORDS = [r \in {"."} |-> 0]
  /\ call = [root |-> ".", ret |-> 0]
  /\ pg = PgIdle
  /\ markup = <<>>
  /\ graf = <<>>
  /\ graph = EmptyGraph
  /\ gi = 1
  /\ ls = LsOff
  /\ lk = LkOff
  /\ nk = NkOff

Next ==
  \/ \E root \in CallRoots : GetWordIdCall(root)
  \/ \E nwords \in 0..Min(MaxWords, MaxTokens - NTokens) : ParseGrafCall(nwords)
  \/ \E t \in TaggedWords, word \in Words : ParseToken(t, word)
  \/ \E nwords \in 0..Min(MaxWords, MaxTokens - NTokens) : NextSentence(nwords)
  \/ ParseGrafReturn
  \/ StartBuildGraph
  \/ BuildGraphStep
  \/ FinishBuildGraph

Spec == Init /\ [][Next]_vars

-----------------------------------------------------------------------------
(* SpecSentences: limit_sentences on every small file and word_limit       *)

GraphOff ==
  /\ pc = "off"
  /\ UNIQ_WORDS = [r \in {"."} |-> 0]
  /\ call = [root |-> ".", ret |-> 0]
  /\ pg = PgIdle
  /\ markup = <<>>
  /\ graf = <<>>
  /\ graph = EmptyGraph
  /\ gi = 1

InitSentences ==
  /\ GraphOff
  /\ lk = LkOff
  /\ nk = NkOff
  /\ \E texts \in SeqsUpTo(SeqsUpTo(Chars, MaxTextLen), MaxSummary) :
       \E word_limit \in 0..MaxWordLimit : ls = LsStart(texts, word_limit)

NextSentences ==
  \/ LimitSentencesYield
  \/ LimitSentencesBreak
  \/ LimitSentencesExhausted

SpecSentences == InitSentences /\ [][NextSentences]_vars

-----------------------------------------------------------------------------
(* SpecKeyphrases: limit_keyphrases on every small file and phrase_limit   *)

InitKeyphrases ==
  /\ GraphOff
  /\ ls = LsOff
  /\ nk = NkOff
  /\ \E lexemes \in SeqsUpTo((1..MaxRankUnits) \X LexPos, MaxLex) :
       \E phrase_limit \in 0..MaxPhraseLimit : lk = LkStart(lexemes, phrase_limit)

NextKeyphrases ==
  \/ LimitKeyphrasesLoad
  \/ LimitKeyphrasesSkip
  \/ LimitKeyphrasesReturn
  \/ LimitKeyphrasesYield
  \/ LimitKeyphrasesExhausted

SpecKeyphrases == InitKeyphrases /\ [][NextKeyphrases]_vars

-----------------------------------------------------------------------------
(* SpecPhrases: normalize_key_phrases on every small document, with the    *)
(* ranks of its graph's nodes                                              *)

InitPhrases ==
  /\ GraphOff
  /\ ls = LsOff
  /\ lk = LkOff
  /\ \E lens \in SeqsUpTo(0..MaxDocTokens, MaxDocSents) :
       /\ SumSeq(lens) <= MaxDocTokens
       /\ \E toks \in [1..SumSeq(lens) -> PhraseTagged], U \in PhraseRegistries :
            LET doc == parsed_doc(toks, lens, U)
                G == build_graph(EmptyGraph, doc, 1)
            IN \E ranks \in [G.node -> 1..MaxRank] \cup {[n \in G.node |-> 0]} :
                 nk = NkStart(doc, ranks)

NextPhrases ==
  \/ NkReadSentence
  \/ NkCollect
  \/ \E nps \in ChunkerResults(nk.phrase) : NkBoundary(nps)
  \/ \E nps \in ChunkerResults(nk.phrase) : NkBoundaryRaise(nps)
  \/ NkEndSentence
  \/ NkNormalize
  \/ NkYield
  \/ NkReturn

SpecPhrases == InitPhrases /\ [][NextPhrases]_vars

-----------------------------------------------------------------------------
(* Properties of the registry and the graph                                *)

Sentences == Range(markup)

\* The number of times pair occurs in the sequence of pairs.
Occurrences(pairs, pair) == Cardinality({k \in 1..Len(pairs) : pairs[k] = pair})

\* The number of kept tokens of sentence s at positions p+1 .. q.
KeptSlots(s, p, q) == Cardinality({k \in (p+1)..q : s[k].word_id > 0})

\* The position pairs of sentence s the tiling is specified to pair up: kept
\* tokens p before q, q at most size kept-token slots after p, position gap at
\* most size.
QualPairs(s, size) ==
  { pq \in (1..Len(s)) \X (1..Len(s)) :
      /\ pq[1] < pq[2]
      /\ s[pq[1]].word_id > 0 /\ s[pq[2]].word_id > 0
      /\ s[pq[2]].idx - s[pq[1]].idx <= size
      /\ KeptSlots(s, pq[1], pq[2]) <= size }

\* The number of pairs of Q, position pairs of sentence s, that are a u followed
\* by a v.
PairCount(s, Q, u, v) ==
  Cardinality({pq \in Q : s[pq[1]].root = u /\ s[pq[2]].root = v})

\* The roots of the tokens parsed so far.
AllRoots == {w.root : w \in Range(graf) \cup UNION {Range(s) : s \in Sentences}}

\* C3 (as claimed): the graph has no self-loop, and every edge has weight >= 1.
C3_NoSelfLoopWeightPositive ==
  \A e \in DOMAIN graph.edge : e[1] # e[2] /\ graph.edge[e] >= 1

\* (Every sentence of the document was the sentence being parsed, graf, at an
\* earlier state, so the first two conjuncts cover every sentence.)
\* C4: get_tiles yields (root(i), root(j)) exactly once for each pair of kept tokens
\* i < j with j at most size kept slots after i and idx_j - idx_i <= size, and no
\* other pair; the weight build_graph gives edge u -> v is the number of such pairs
\* over the sentences read, and an edge exists only when there is one.
C4_TilesAndWeights ==
  /\ pc = "sent" =>
       LET tiles == get_tiles(graf, TileSize)
           Q == QualPairs(graf, TileSize)
       IN /\ \A u \in AllRoots, v \in AllRoots :
               Occurrences(tiles, <<u, v>>) = PairCount(graf, Q, u, v)
          /\ Range(tiles) \subseteq AllRoots \X AllRoots
  /\ pc = "done" =>
       LET CorpusPairs(u, v) ==
             SumSeq([i \in 1..Len(markup) |->
                       PairCount(markup[i], QualPairs(markup[i], TileSize), u, v)])
       IN /\ DOMAIN graph.edge \subseteq AllRoots \X AllRoots
          /\ \A u \in AllRoots, v \in AllRoots :
               IF <<u, v>> \in DOMAIN graph.edge
                 THEN graph.edge[<<u, v>>] = CorpusPairs(u, v)
                 ELSE CorpusPairs(u, v) = 0

\* The spec's example: kept tokens at positions 0, 1, 4 of a sentence (window 3):
\* the pair (0,1) is yielded, (0,4) is not, and the graph is built.
C4_Witness ==
  /\ pc = "done"
  /\ Len(markup) >= 1
  /\ Len(markup[1]) = 5
  /\ {k \in 1..5 : markup[1][k].word_id > 0} = {1, 2, 5}
  /\ markup[1][1].root = "b" /\ markup[1][2].root = "bs" /\ markup[1][5].root = "bs"
  /\ get_tiles(markup[1], TileSize) = << <<"b", "bs">>, <<"bs", "bs">> >>
  /\ graph.edge[<<"b", "bs">>] = 1

\* C5, the state part: distinct roots have distinct identities, every root other
\* than "." has an identity > 0, and the last call returned the registry's value.
RegistryInv ==
  /\ \A r \in DOMAIN UNIQ_WORDS, q \in DOMAIN UNIQ_WORDS :
       r # q => UNIQ_WORDS[r] # UNIQ_WORDS[q]
  /\ \A r \in DOMAIN UNIQ_WORDS : r # "." => UNIQ_WORDS[r] > 0
  /\ call.root \in DOMAIN UNIQ_WORDS
  /\ call.ret = UNIQ_WORDS[call.root]

\* C5, the step part: an identity never changes once assigned, a call on a known
\* root leaves the registry as it is, and a newly assigned identity is greater
\* than every identity assigned before.
RegistryStep ==
  /\ \A r \in DOMAIN UNIQ_WORDS :
       r \in DOMAIN UNIQ_WORDS' /\ UNIQ_WORDS'[r] = UNIQ_WORDS[r]
  /\ \A r \in DOMAIN UNIQ_WORDS' \ DOMAIN UNIQ_WORDS :
       \A q \in DOMAIN UNIQ_WORDS : UNIQ_WORDS'[r] > UNIQ_WORDS[q]
  /\ call'.root \in DOMAIN UNIQ_WORDS =>
       UNIQ_WORDS' = UNIQ_WORDS /\ call'.ret = UNIQ_WORDS[call'.root]

\* C5: after any sequence of get_word_id calls, identities are unique per root,
\* never change, grow strictly with each new assignment, and are > 0 for every root
\* other than ".".
C5_RegistryUniqueMonotone == []RegistryInv /\ [][RegistryStep]_vars

\* "bs" was registered by parse_graf; a direct call made after it then registered
\* "b", a root no token has; and the document holds a sentence in which a kept
\* root occurs twice: its second call found it registered.
C5_Witness ==
  /\ pc = "idle"
  /\ call = [root |-> "b", ret |-> 2]
  /\ UNIQ_WORDS["bs"] = 1
  /\ \A s \in Sentences : \A k \in 1..Len(s) : s[k].root # "b"
  /\ \E s \in Sentences : \E p \in 1..Len(s), q \in 1..Len(s) :
       p < q /\ s[p].word_id > 0 /\ s[p].word_id = s[q].word_id

-----------------------------------------------------------------------------
(* Properties of limit_sentences and limit_keyphrases                      *)

\* The number of space-separated pieces of a text.
WordCount(text) == Cardinality({k \in 1..Len(text) : text[k] = " "}) + 1

\* The total word count of the first n sentences of the file.
PrefixWords(path, n) == SumSeq([k \in 1..n |-> WordCount(path[k].text)])

\* The length of the longest prefix of the file whose word count fits the budget.
LongestPrefix(path, word_limit) ==
  CHOOSE n \in 0..Len(path) :
    /\ PrefixWords(path, n) <= word_limit
    /\ \A m \in (n + 1)..Len(path) : PrefixWords(path, m) > word_limit

\* C1: what limit_sentences yields is exactly the longest prefix of the file whose
\* total word count is <= word_limit: the running total never exceeds word_limit,
\* and after the first sentence that would exceed it nothing more is yielded, even
\* a sentence that would fit.
C1_LongestPrefixWithinBudget ==
  ls.pc \in {"run", "done"} =>
    LET n == Len(ls.out)
        best == LongestPrefix(ls.path, ls.word_limit)
    IN /\ n <= Len(ls.path)
       /\ \A k \in 1..n :
            /\ ls.out[k][2] = ls.path[k].idx
            /\ Len(ls.out[k][1]) = WordCount(ls.path[k].text)
       /\ ls.word_count = PrefixWords(ls.path, n)
       /\ ls.word_count <= ls.word_limit
       /\ n = Min(ls.i - 1, best)
       /\ ls.pc = "done" => n = best

\* limit_sentences stopped at the second of three sentences although the third
\* would have fitted the budget left.
C1_Witness ==
  /\ ls.pc = "done"
  /\ Len(ls.path) = 3
  /\ Len(ls.out) = 1
  /\ ls.word_count + WordCount(ls.path[2].text) > ls.word_limit
  /\ ls.word_count + WordCount(ls.path[3].text) <= ls.word_limit

\* C2 (as claimed): the number of key phrases limit_keyphrases yields never
\* exceeds phrase_limit.
C2_AtMostPhraseLimit ==
  lk.pc \in {"scan", "done"} => Len(lk.out) <= lk.phrase_limit

SortedDescending(path) ==
  \A k \in 1..(Len(path) - 1) : path[k].rank >= path[k + 1].rank

\* The first n elements of a sequence (all of it when it is shorter).
FirstN(seq, n) == SubSeq(seq, 1, Min(n, Len(seq)))

\* The texts of the lexemes of the file that are not verb-led and whose rank is at
\* least the mean rank of all the lexemes of the file, in file order.
AboveMeanNonVerb(path) ==
  LET total == SumSeq([k \in 1..Len(path) |-> path[k].rank])
      keep == SelectSeq(path, LAMBDA rl :
                rl.pos \in {"np", "nn"} /\ rl.rank * Len(path) >= total)
  IN [k \in 1..Len(keep) |-> keep[k].text]

\* C9 (as claimed): on a file in descending rank order the scan yields exactly the
\* non-verb-led lexemes of rank >= the mean, in order, cut at the phrase limit.
C9_ScanIsFilterCutAtLimit ==
  (lk.pc = "done" /\ SortedDescending(lk.path)) =>
    lk.out = FirstN(AboveMeanNonVerb(lk.path), lk.phrase_limit)

\* What the code does instead: the cut is one past the phrase limit (the test is
\* used > phrase_limit); the scan is the filter otherwise.
ScanIsFilterCutOnePastLimit ==
  (lk.pc = "done" /\ SortedDescending(lk.path)) =>
    lk.out = FirstN(AboveMeanNonVerb(lk.path), lk.phrase_limit + 1)

-----------------------------------------------------------------------------
(* Properties of normalize_key_phrases                                     *)

\* The noun phrase np is the text of a contiguous sub-sequence of the phrase.
Aligned(np, phrase) ==
  \E i \in 1..(Len(phrase) - Len(np) + 1) :
    \A j \in 1..Len(np) : phrase[i + j - 1].text = <<np[j]>>

\* C6 (as claimed): a chunker phrase that cannot be aligned to a contiguous
\* sub-sequence of its run is dropped silently: normalize_key_phrases raises no
\* error for it.
C6_UnalignedChunkDropped ==
  ~(nk.pc = "error" /\ nk.line \in {288, 359} /\ ~Aligned(nk.at, nk.phrase))

\* What the code does: the phrase pass raises exactly for an unaligned chunk.
RaisesOnlyForUnalignedChunk ==
  (nk.pc = "error" /\ nk.line \in {288, 359}) =>
    /\ nk.err = (IF nk.line = 288 THEN "IndexError" ELSE "TypeError")
    /\ ~Aligned(nk.at, nk.phrase)
    /\ nk.err = "IndexError" =>
         \E i \in 1..Len(nk.phrase) : nk.phrase[i].text = <<nk.at[1]>>

\* The normalisation step was reached with an empty lexeme table.
NormalizedEmpty ==
  nk.pc \in {"done", "error"} /\ nk.si > Len(nk.path) /\ nk.lex = <<>>

\* C7 (as claimed): with no rankable lexemes normalize_key_phrases fails at the
\* normalisation step instead of completing with an empty output.
C7_EmptyLexiconFails == NormalizedEmpty => nk.pc = "error"

\* C7 (amended): with no rankable lexemes the normalisation step of
\* normalize_key_phrases divides nothing: it raises no error and completes
\* normally, yielding nothing.
C7_EmptyLexiconYieldsNothing ==
  NormalizedEmpty => nk.pc = "done" /\ nk.err = "" /\ nk.out = <<>>

\* A document with kept tokens, none of them ranked, was normalised.
C7_Witness ==
  /\ NormalizedEmpty
  /\ nk.pc = "done"
  /\ \E i \in 1..Len(nk.path) : \E k \in 1..Len(nk.path[i]) :
       nk.path[i][k].word_id > 0

\* The largest single-word rank of the whole document (0 when there is none).
GlobalMaxSingle ==
  LET rs == {nk.ranks[w.root] :
               w \in {w \in UNION {Range(nk.path[i]) : i \in 1..Len(nk.path)} :
                        is_single(w, nk.ranks)}}
  IN IF rs = {} THEN 0 ELSE CHOOSE r \in rs : \A q \in rs : q <= r

rank_eq(x, y) == ~rank_less(x, y) /\ ~rank_less(y, x)

\* C8 (as claimed): a phrase's rank is sqrt(sum of member ranks squared) /
\* member_count + max_single with max_single the largest single-word rank of the
\* whole document, so every phrase lexeme precedes every single-word lexeme in the
\* output; member ranks [0.3, 0.4] with max_single 0.5 give 0.75 (units of 0.1:
\* 3, 4 and 5 give 15/2).
C8_PhraseBiasIsGlobalMax ==
  /\ rank_eq(phrase_rank(<<[rank |-> single_rank(3)], [rank |-> single_rank(4)]>>, 5),
             [sq |-> 225, n |-> 2, bias |-> 0])
  /\ nk.pc = "done" =>
       /\ \A k \in 1..Len(nk.lex) :
            nk.lex[k].pos = "np" => nk.lex[k].rank.bias = GlobalMaxSingle
       /\ \A i \in 1..Len(nk.out), j \in 1..Len(nk.out) :
            (nk.out[i].pos = "np" /\ nk.out[j].pos # "np") => i < j

\* What the code does: a phrase's bias is the largest single-word rank of the
\* sentences read up to and including the phrase's own.
PhraseBiasAtMostGlobalMax ==
  nk.pc = "done" =>
    \A k \in 1..Len(nk.lex) :
      nk.lex[k].pos = "np" =>
        nk.lex[k].rank.bias <= GlobalMaxSingle /\ nk.lex[k].rank.bias >= 0

\* (w.word_id > 0) and (w.root in ranks): the token may be part of a run.
Runnable(w) == w.word_id > 0 /\ w.root \in DOMAIN nk.ranks

\* The maximal runs of two or more contiguous kept, ranked tokens of a sentence,
\* as <<from, to>> positions.
MaximalRuns(sent) ==
  { pq \in (1..Len(sent)) \X (1..Len(sent)) :
      /\ pq[1] < pq[2]
      /\ \A k \in pq[1]..pq[2] : Runnable(sent[k])
      /\ pq[1] = 1 \/ ~Runnable(sent[pq[1] - 1])
      /\ pq[2] = Len(sent) \/ ~Runnable(sent[pq[2] + 1]) }

\* C10 (as claimed): when the phrase pass over a sentence has ended, every maximal
\* run of two or more contiguous kept, ranked tokens of the sentence, one reaching
\* the sentence's last token included, was submitted to collect_chunks exactly
\* once.
C10_EveryRunSubmitted ==
  (nk.pc = "sent" /\ nk.si > 1) =>
    \A run \in MaximalRuns(nk.path[nk.si - 1]) :
      Occurrences(nk.submitted, run) = 1

\* What the code does: the runs followed by a boundary token are submitted exactly
\* once, and nothing else is.
RunsBeforeBoundarySubmitted ==
  (nk.pc = "sent" /\ nk.si > 1) =>
    LET sent == nk.path[nk.si - 1]
    IN /\ \A run \in MaximalRuns(sent) :
            Occurrences(nk.submitted, run) = IF run[2] = Len(sent) THEN 0 ELSE 1
       /\ Range(nk.submitted) \subseteq MaximalRuns(sent)

=============================================================================
